---- MODULE Spec2Model ----
(***************************************************************************)
(* A model of src/main.py: the virtual try-on fitting pipeline             *)
(* (fit_t_shirt, align_meshes_icp, scale_mesh, translate_mesh) and its     *)
(* caller main.                                                            *)
(*                                                                         *)
(* Numbers.  A float64 is modelled as an extended rational <<n, d>>:       *)
(*   d > 0   the rational n/d in lowest terms,                             *)
(*   <<1,0>> +inf,  <<-1,0>> -inf,  <<0,0>> nan,                           *)
(* so that numpy's silent division by zero (inf or nan, no exception) and  *)
(* the propagation of inf/nan through a matrix product are kept.  Rounding *)
(* of finite values is not modelled: finite arithmetic is exact.           *)
(*                                                                         *)
(* Meshes.  A mesh is one triangle, the tuple of its three vertices        *)
(* (trimesh's area-weighted centroid of a single triangle is the mean of   *)
(* its vertices).  Python objects live in heap, addressed by a reference   *)
(* (a string); the reference "None" is Python's None.                      *)
(***************************************************************************)
EXTENDS Integers, Sequences, FiniteSets, TLC

(***************************************************************************)
(* Extended rational arithmetic (numpy float64 semantics of + - * /).      *)
(***************************************************************************)
Abs(n) == IF n < 0 THEN -n ELSE n

Sign(n) == IF n < 0 THEN -1 ELSE IF n > 0 THEN 1 ELSE 0

RECURSIVE GCD(_, _)
GCD(a, b) == IF b = 0 THEN a ELSE GCD(b, a % b)

Norm(n, d) ==
    IF d = 0 THEN <<Sign(n), 0>>
    ELSE LET g == GCD(Abs(n), Abs(d))
         IN  <<(Sign(d) * n) \div g, Abs(d) \div g>>

R(n, d) == Norm(n, d)

NaN == <<0, 0>>

IsFinite(a) == a[2] # 0

\* a * b, cancelling across before multiplying (the products stay small)
RMul(a, b) ==
    IF ~IsFinite(a) \/ ~IsFinite(b) THEN <<Sign(a[1] * b[1]), 0>>
    ELSE LET g == GCD(Abs(a[1]), b[2])
             h == GCD(Abs(b[1]), a[2])
         IN  Norm((a[1] \div g) * (b[1] \div h), (a[2] \div h) * (b[2] \div g))

RNeg(a) == <<-a[1], a[2]>>

RAdd(a, b) ==
    IF IsFinite(a) /\ IsFinite(b)
    THEN LET g == GCD(a[2], b[2])
         IN  Norm(a[1] * (b[2] \div g) + b[1] * (a[2] \div g), (a[2] \div g) * b[2])
    ELSE IF a = NaN \/ b = NaN THEN NaN
    ELSE IF ~IsFinite(a) /\ ~IsFinite(b) THEN (IF a = b THEN a ELSE NaN)
    ELSE IF IsFinite(a) THEN b ELSE a

RSub(a, b) == RAdd(a, RNeg(b))

\* 1/b: 1/0 = inf, 1/inf = 0, 1/nan = nan.
RInv(b) ==
    IF b = NaN THEN NaN
    ELSE IF ~IsFinite(b) THEN <<0, 1>>
    ELSE IF b[1] = 0 THEN <<1, 0>>
    ELSE Norm(b[2], b[1])

\* a/b as numpy divides: x/0 = +-inf, 0/0 = nan, with a warning and no exception.
RDiv(a, b) == RMul(a, RInv(b))

\* a < b; false when either is nan.
RLt(a, b) ==
    IF a = NaN \/ b = NaN THEN FALSE
    ELSE IF IsFinite(a) /\ IsFinite(b) THEN a[1] * b[2] < b[1] * a[2]
    ELSE IF ~IsFinite(a) /\ ~IsFinite(b) THEN a[1] < b[1]
    ELSE IF IsFinite(a) THEN b[1] > 0 ELSE a[1] < 0

RMax(a, b) == IF RLt(a, b) THEN b ELSE a

RMin(a, b) == IF RLt(b, a) THEN b ELSE a

Zero == <<0, 1>>

One == <<1, 1>>

(***************************************************************************)
(* Vectors, 4x4 homogeneous matrices, meshes.                              *)
(***************************************************************************)
Axes == 1..3

VSub(u, v) == [i \in Axes |-> RSub(u[i], v[i])]

VMulC(u, v) == [i \in Axes |-> RMul(u[i], v[i])]

VDivC(u, v) == [i \in Axes |-> RDiv(u[i], v[i])]

\* np.eye(4)
Eye4 == [i \in 1..4 |-> [j \in 1..4 |-> IF i = j THEN One ELSE Zero]]

\* Row i of matrix m times the homogeneous point (p, 1), summed left to right.
RowDot(m, i, p) ==
    RAdd(RAdd(RAdd(RMul(m[i][1], p[1]), RMul(m[i][2], p[2])), RMul(m[i][3], p[3])),
         m[i][4])

TransformPoint(m, p) == [i \in Axes |-> RowDot(m, i, p)]

\* mesh.apply_transform(matrix): every vertex, in place.
apply_transform(verts, m) == [k \in DOMAIN verts |-> TransformPoint(m, verts[k])]

\* mesh.extents: per axis, max - min over the vertices.
extents(verts) ==
    [i \in Axes |->
        RSub(RMax(RMax(verts[1][i], verts[2][i]), verts[3][i]),
             RMin(RMin(verts[1][i], verts[2][i]), verts[3][i]))]

\* mesh.centroid of a one-triangle mesh: the mean of its vertices.
centroid(verts) ==
    [i \in Axes |-> RDiv(RAdd(RAdd(verts[1][i], verts[2][i]), verts[3][i]), R(3, 1))]

P(x, y, z) == <<R(x, 1), R(y, 1), R(z, 1)>>


\* scale_matrix = np.eye(4); scale_matrix[:3,:3] = np.diag(scale_factors)
ScaleMatrix(f) ==
    [i \in 1..4 |-> [j \in 1..4 |-> IF i = j /\ i <= 3 THEN f[i] ELSE Eye4[i][j]]]

\* transform = np.eye(4); transform[:3,3] = translation
TranslationMatrix(t) ==
    [i \in 1..4 |-> [j \in 1..4 |-> IF j = 4 /\ i <= 3 THEN t[i] ELSE Eye4[i][j]]]

(***************************************************************************)
(* Python objects.  None is the reference "None"; a reference to a mesh is *)
(* the name of its heap cell.  An unallocated cell holds <<>>.             *)
(***************************************************************************)
None == "None"

CallerObjects == {"female", "male", "shirt"}

ObjIds == CallerObjects \cup {"work", "source_copy"}

\* (a mutant of deepcopy: no copy is made, the same object is returned)
deepcopy_alias(h, src, fresh) == [heap |-> h, ref |-> src]

\* copy.deepcopy(mesh): a new object holding the same vertices.
deepcopy(h, src, fresh) == [heap |-> [h EXCEPT ![fresh] = h[src]], ref |-> fresh]

\* isinstance(x, (list, np.ndarray))
IsListOrArray(kind) == kind \in {"list", "ndarray"}

\* (a mutant of scale_mesh: only too short an argument is refused)
scale_mesh_short(h, mesh, kind, scale_factors) ==
    IF mesh = None \/ ~IsListOrArray(kind) \/ Len(scale_factors) < 3
    THEN [heap |-> h, ret |-> None]
    ELSE [heap |-> [h EXCEPT ![mesh] = apply_transform(@, ScaleMatrix(scale_factors))],
          ret  |-> mesh]

\* scale_mesh(mesh, scale_factors): None when the arguments are refused, else
\* the same mesh object, transformed in place.
scale_mesh(h, mesh, kind, scale_factors) ==
    IF mesh = None \/ ~IsListOrArray(kind) \/ Len(scale_factors) # 3
    THEN [heap |-> h, ret |-> None]
    ELSE [heap |-> [h EXCEPT ![mesh] = apply_transform(@, ScaleMatrix(scale_factors))],
          ret  |-> mesh]

\* translate_mesh(mesh, translation)
translate_mesh(h, mesh, kind, translation) ==
    IF mesh = None \/ ~IsListOrArray(kind) \/ Len(translation) # 3
    THEN [heap |-> h, ret |-> None]
    ELSE [heap |-> [h EXCEPT ![mesh] = apply_transform(@, TranslationMatrix(translation))],
          ret  |-> mesh]

(***************************************************************************)
(* The two profiles of fit_t_shirt.                                        *)
(***************************************************************************)
PreScaleRatios(gender) ==
    IF gender = "female" THEN <<R(71, 100), R(41, 100), R(142, 100)>>
    ELSE <<R(79, 100), R(43, 100), R(125, 100)>>

PostScaleFactors(gender) ==
    IF gender = "female" THEN <<R(9, 10), R(104, 100), R(12, 10)>>
    ELSE <<R(1, 1), R(104, 100), R(13, 10)>>

\* (a mutant of ScaleFactors: the quotient is inverted)
ScaleFactors_inverted(body_size, shirt_size, gender) ==
    VMulC(VDivC(shirt_size, body_size), PreScaleRatios(gender))

\* scale_factors = body_size / shirt_size * np.array([...])
ScaleFactors(body_size, shirt_size, gender) ==
    VMulC(VDivC(body_size, shirt_size), PreScaleRatios(gender))

\* (a mutant of Translation: the offset is added to x, translation[0])
Translation_x(body_verts, scaled_verts, body_size) ==
    LET t == VSub(centroid(body_verts), centroid(scaled_verts))
    IN  [t EXCEPT ![1] = RAdd(@, RMul(body_size[2], R(1, 10)))]

\* translation = body.centroid - scaled.centroid; translation[1] += body_size[1] * 0.1
Translation(body_verts, scaled_verts, body_size) ==
    LET t == VSub(centroid(body_verts), centroid(scaled_verts))
    IN  [t EXCEPT ![2] = RAdd(@, RMul(body_size[2], R(1, 10)))]

(***************************************************************************)
(* Input meshes.                                                           *)
(***************************************************************************)
\* extents [1.8, 0.9, 0.5]
BodyA == <<P(0, 0, 0), <<R(9, 5), R(9, 10), R(1, 2)>>, <<R(9, 5), R(0, 1), R(0, 1)>>>>

\* extents [2, 4, 2], off the origin
BodyB == <<P(1, 0, 0), P(3, 0, 1), P(1, 4, 2)>>

Bodies == {BodyA, BodyB}

\* extents [1, 1, 1]
ShirtUnit == <<P(0, 0, 0), P(1, 1, 1), P(1, 0, 0)>>

\* extents [2, 1, 4], off the origin
ShirtWide == <<P(1, 1, 1), P(3, 2, 5), P(1, 2, 1)>>

\* extents [0, 1, 1]: flat along x
ShirtFlat == <<P(0, 0, 0), P(0, 1, 1), P(0, 1, 0)>>

Shirts == {ShirtUnit, ShirtWide, ShirtFlat}

Genders == {"female", "male", "other"}


(***************************************************************************)
(* Bounds of the model.                                                    *)
(***************************************************************************)
\* np.random states a run may start from, or a caller may seed: 0..MaxSeed
MaxSeed == 1

\* the rigid transforms registration may return shift by 0..MaxShift along x
MaxShift == 1

\* calls of fit_t_shirt made by the fixed-seed caller
NumCalls == 2

(***************************************************************************)
(* The outside world: trimesh's surface sampler and registration.  Each is *)
(* a deterministic function of its arguments and of np.random's state, and *)
(* which function is not fixed by this repository: an outcome is chosen    *)
(* the first time a call is made and remembered (sample_memo, icp_memo),   *)
(* so the same call made again has the same outcome.                       *)
(***************************************************************************)
\* The rigid transforms registration may return: a rotation about z by
\* turns * 90 degrees, then a shift along x.
RigidMatrix(turns, shift) ==
    LET c == CASE turns = 0 -> 1 [] turns = 1 -> 0 [] turns = 2 -> -1 [] OTHER -> 0
        s == CASE turns = 0 -> 0 [] turns = 1 -> 1 [] turns = 2 -> 0 [] OTHER -> -1
    IN  << <<R(c, 1), R(-s, 1), Zero, R(shift, 1)>>,
           <<R(s, 1), R(c, 1),  Zero, Zero>>,
           <<Zero,    Zero,     One,  Zero>>,
           <<Zero,    Zero,     Zero, One>> >>

\* What trimesh.registration.icp does: raise, or return a rigid transform.
IcpOutcomes ==
    {[ok |-> FALSE, turns |-> 0, shift |-> 0]}
        \cup {[ok |-> TRUE, turns |-> t, shift |-> d] : t \in 0..3, d \in 0..MaxShift}

\* The outcomes a remembered call allows: the one remembered, or any.
Allowed(memo, key, outcomes) ==
    IF \E e \in memo : e[1] = key
    THEN {e[2] : e \in {x \in memo : x[1] = key}}
    ELSE outcomes

VARIABLES
    heap,        \* ObjIds -> the vertices of the mesh object (<<>>: not allocated)
    orig,        \* the caller's meshes as loaded (history)
    rng,         \* the state of np.random
    seed,        \* the seed the fixed-seed caller sets before each call
    sample_memo, \* outcomes of mesh.sample calls made so far
    icp_memo,    \* outcomes of registration.icp calls made so far
    loaded,      \* main's female_mesh, male_mesh, shirt (references)
    meshes,      \* main's list of bodies
    gender,      \* main's list of genders
    indx,        \* main's loop index (from 1)
    mainpc,      \* where the caller is
    visualized,  \* the arguments of the visualize_meshes calls made (history)
    results,     \* what each finished call returned (history)
    fit,         \* the frame of fit_t_shirt and of the align_meshes_icp it calls
    sc,          \* a direct call of scale_mesh: its arguments and result
    reg          \* the registration loop

vars ==
    <<heap, orig, rng, seed, sample_memo, icp_memo, loaded, meshes, gender, indx,
      mainpc, visualized, results, fit, sc, reg>>

IdleFit ==
    [pc |-> "idle", body_mesh |-> None, shirt_mesh |-> None, gender |-> "",
     body_size |-> <<>>, shirt_size |-> <<>>, scale_factors |-> <<>>,
     scaled_shirt |-> None, translation |-> <<>>, positioned_shirt |-> None,
     positioned_verts |-> <<>>, target_points |-> <<>>, source_points |-> <<>>,
     source_copy |-> None, transform |-> <<>>, aligned_shirt |-> None,
     icp_failed |-> FALSE,
     steps |-> <<>>, ret |-> <<>>, exc |-> ""]

IdleSc == [pc |-> "idle", mesh |-> None, kind |-> "", factors |-> <<>>, ret |-> None]

IdleReg == [pc |-> "idle", n |-> 0, improvement |-> <<1, 0>>, turns |-> 0]


world == <<rng, sample_memo, icp_memo>>

callervars == <<orig, seed, loaded, meshes, gender, indx, mainpc, visualized, results>>

(***************************************************************************)
(* fit_t_shirt(body_mesh, shirt_mesh, gender)                              *)
(***************************************************************************)
\* if body_mesh is None or shirt_mesh is None: return None, None
fit_check ==
    /\ fit.pc = "entry"
    /\ fit' = IF fit.body_mesh = None \/ fit.shirt_mesh = None
              THEN [fit EXCEPT !.pc = "returned", !.ret = <<None, None>>]
              ELSE [fit EXCEPT !.pc = "checked"]
    /\ UNCHANGED <<heap, world, callervars, sc, reg>>

\* body_size, shirt_size, scale_factors; scaled_shirt = scale_mesh(deepcopy(shirt_mesh), ...)
fit_prescale ==
    /\ fit.pc = "checked"
    /\ LET body_size  == extents(heap[fit.body_mesh])
           shirt_size == extents(heap[fit.shirt_mesh])
           factors    == ScaleFactors(body_size, shirt_size, fit.gender)
           copied     == deepcopy(heap, fit.shirt_mesh, "work")
           scaled     == scale_mesh(copied.heap, copied.ref, "ndarray", factors)
       IN  /\ heap' = scaled.heap
           /\ fit' = [fit EXCEPT !.pc = "scaled", !.body_size = body_size,
                                 !.shirt_size = shirt_size, !.scale_factors = factors,
                                 !.scaled_shirt = scaled.ret,
                                 !.steps = Append(@, "prescale")]
    /\ UNCHANGED <<world, callervars, sc, reg>>

\* translation; positioned_shirt = translate_mesh(scaled_shirt, translation)
\* (scaled_shirt.centroid raises AttributeError on None)
fit_position ==
    /\ fit.pc = "scaled"
    /\ IF fit.scaled_shirt = None
       THEN /\ fit' = [fit EXCEPT !.pc = "raised", !.exc = "AttributeError"]
            /\ UNCHANGED heap
       ELSE LET translation == Translation(heap[fit.body_mesh], heap[fit.scaled_shirt],
                                           fit.body_size)
                moved       == translate_mesh(heap, fit.scaled_shirt, "ndarray", translation)
            IN  /\ heap' = moved.heap
                /\ fit' = [fit EXCEPT !.pc = "positioned", !.translation = translation,
                                      !.positioned_shirt = moved.ret,
                                      !.positioned_verts =
                                          IF moved.ret = None THEN <<>>
                                          ELSE moved.heap[moved.ret],
                                      !.steps = Append(@, "translate")]
    /\ UNCHANGED <<world, callervars, sc, reg>>

(***************************************************************************)
(* align_meshes_icp(target_mesh = body_mesh, source_mesh = positioned_shirt)*)
(***************************************************************************)
\* the None check and source_copy = copy.deepcopy(source_mesh)
align_enter ==
    /\ fit.pc = "positioned"
    /\ IF fit.body_mesh = None \/ fit.positioned_shirt = None
       THEN /\ fit' = [fit EXCEPT !.pc = "aligned", !.aligned_shirt = None,
                                  !.icp_failed = TRUE, !.steps = Append(@, "icp")]
            /\ UNCHANGED heap
       ELSE LET copied == deepcopy(heap, fit.positioned_shirt, "source_copy")
            IN  /\ heap' = copied.heap
                /\ fit' = [fit EXCEPT !.pc = "copied", !.source_copy = copied.ref,
                                      !.steps = Append(@, "icp")]
    /\ UNCHANGED <<world, callervars, sc, reg>>

\* mesh.sample(5000), outside the try block: the points drawn, or an exception
\* that leaves align_meshes_icp and fit_t_shirt.
sample(ref, field, next) ==
    LET key == <<heap[ref], rng>>
    IN  \E ok \in Allowed(sample_memo, key, BOOLEAN) :
            /\ sample_memo' = sample_memo \cup {<<key, ok>>}
            /\ IF ok
               THEN /\ fit' = [fit EXCEPT !.pc = next, ![field] = key]
                    /\ rng' = rng + 1
               ELSE /\ fit' = [fit EXCEPT !.pc = "raised", !.exc = "sample",
                                          !.icp_failed = TRUE]
                    /\ UNCHANGED rng

\* target_points = target_mesh.sample(5000)
align_sample_target ==
    /\ fit.pc = "copied"
    /\ sample(fit.body_mesh, "target_points", "target_sampled")
    /\ UNCHANGED <<heap, icp_memo, callervars, sc, reg>>

\* source_points = source_copy.sample(5000)
align_sample_source ==
    /\ fit.pc = "target_sampled"
    /\ sample(fit.source_copy, "source_points", "source_sampled")
    /\ UNCHANGED <<heap, icp_memo, callervars, sc, reg>>

\* the try block: icp, source_copy.apply_transform(transform), return source_copy;
\* except Exception: return None
align_icp ==
    /\ fit.pc = "source_sampled"
    /\ LET key == <<fit.source_points, fit.target_points>>
       IN  \E o \in Allowed(icp_memo, key, IcpOutcomes) :
               /\ icp_memo' = icp_memo \cup {<<key, o>>}
               /\ IF o.ok
                  THEN /\ heap' = [heap EXCEPT ![fit.source_copy] =
                                      apply_transform(@, RigidMatrix(o.turns, o.shift))]
                       /\ fit' = [fit EXCEPT !.pc = "aligned",
                                             !.aligned_shirt = fit.source_copy,
                                             !.transform = RigidMatrix(o.turns, o.shift)]
                  ELSE /\ fit' = [fit EXCEPT !.pc = "aligned", !.aligned_shirt = None,
                                             !.icp_failed = TRUE]
                       /\ UNCHANGED heap
    /\ UNCHANGED <<rng, sample_memo, callervars, sc, reg>>

\* the fallback to positioned_shirt, the post-scale and the return
fit_postscale ==
    /\ fit.pc = "aligned"
    /\ LET aligned == IF fit.aligned_shirt = None THEN fit.positioned_shirt
                      ELSE fit.aligned_shirt
           final   == scale_mesh(heap, aligned, "list", PostScaleFactors(fit.gender))
       IN  /\ heap' = final.heap
           /\ fit' = [fit EXCEPT !.pc = "returned", !.aligned_shirt = aligned,
                                 !.ret = <<final.ret, fit.body_mesh>>,
                                 !.steps = Append(@, "postscale")]
    /\ UNCHANGED <<world, callervars, sc, reg>>

FitSteps ==
    \/ fit_check
    \/ fit_prescale
    \/ fit_position
    \/ align_enter
    \/ align_sample_target
    \/ align_sample_source
    \/ align_icp
    \/ fit_postscale


(***************************************************************************)
(* main()                                                                  *)
(***************************************************************************)
\* the frame of a call fit_t_shirt(body_mesh, shirt_mesh, gender)
CallFrame(body_mesh, shirt_mesh, g) ==
    [IdleFit EXCEPT !.pc = "entry", !.body_mesh = body_mesh,
                    !.shirt_mesh = shirt_mesh, !.gender = g]

\* (a mutant of fit_failed: the check of the result is lost)
fit_failed_never(ret) == FALSE

\* if fitted_shirt is None
fit_failed(ret) == ret[1] = None

\* if female_mesh is None or male_mesh is None or shirt is None: return
\* meshes = [female_mesh, male_mesh]; gender = ['female', 'male']
main_load_check ==
    /\ mainpc = "start"
    /\ IF loaded.female_mesh = None \/ loaded.male_mesh = None \/ loaded.shirt = None
       THEN /\ mainpc' = "returned"
            /\ UNCHANGED <<meshes, gender, indx>>
       ELSE /\ mainpc' = "loop"
            /\ meshes' = <<loaded.female_mesh, loaded.male_mesh>>
            /\ gender' = <<"female", "male">>
            /\ indx' = 1
    /\ UNCHANGED <<heap, orig, world, seed, loaded, visualized, results, fit, sc, reg>>

\* fitted_shirt, body = fit_t_shirt(i, shirt, gender[indx])
main_call_fit ==
    /\ mainpc = "loop"
    /\ indx <= Len(meshes)
    /\ fit' = CallFrame(meshes[indx], loaded.shirt, gender[indx])
    /\ mainpc' = "in_fit"
    /\ UNCHANGED <<heap, orig, world, seed, loaded, meshes, gender, indx, visualized,
                   results, sc, reg>>

\* if fitted_shirt is None: return; else visualize_meshes([body, fitted_shirt]) and
\* go on with the next body
main_after_fit ==
    /\ mainpc = "in_fit"
    /\ fit.pc = "returned"
    /\ results' = Append(results,
                         [fitted |-> IF fit.ret[1] = None THEN <<>> ELSE heap[fit.ret[1]],
                          body   |-> fit.ret[2]])
    /\ IF fit_failed(fit.ret)
       THEN /\ mainpc' = "returned"
            /\ UNCHANGED <<indx, visualized>>
       ELSE /\ visualized' = Append(visualized, <<fit.ret[2], fit.ret[1]>>)
            /\ indx' = indx + 1
            /\ mainpc' = "loop"
    /\ fit' = IdleFit
    /\ UNCHANGED <<heap, orig, world, seed, loaded, meshes, gender, sc, reg>>

\* an exception leaving fit_t_shirt is caught nowhere: it ends main
main_crash ==
    /\ mainpc = "in_fit"
    /\ fit.pc = "raised"
    /\ mainpc' = "crashed"
    /\ UNCHANGED <<heap, orig, world, seed, loaded, meshes, gender, indx, visualized,
                   results, fit, sc, reg>>

\* print("Done")
main_done ==
    /\ mainpc = "loop"
    /\ indx > Len(meshes)
    /\ mainpc' = "done"
    /\ UNCHANGED <<heap, orig, world, seed, loaded, meshes, gender, indx, visualized,
                   results, fit, sc, reg>>

\* the meshes load_mesh returned: a mesh, or None
Loaded(h) == [o \in CallerObjects |-> IF h[o] = <<>> THEN None ELSE o]

Init ==
    /\ \E f \in Bodies \cup {<<>>}, m \in Bodies \cup {<<>>}, s \in Shirts \cup {<<>>} :
           heap = [o \in ObjIds |->
                      CASE o = "female" -> f [] o = "male" -> m [] o = "shirt" -> s
                        [] OTHER -> <<>>]
    /\ orig = heap
    /\ loaded = [female_mesh |-> Loaded(heap)["female"], male_mesh |-> Loaded(heap)["male"],
                 shirt |-> Loaded(heap)["shirt"]]
    /\ rng \in 0..MaxSeed
    /\ seed = 0
    /\ sample_memo = {}
    /\ icp_memo = {}
    /\ meshes = <<>>
    /\ gender = <<>>
    /\ indx = 0
    /\ mainpc = "start"
    /\ visualized = <<>>
    /\ results = <<>>
    /\ fit = IdleFit
    /\ sc = IdleSc
    /\ reg = IdleReg

Next ==
    \/ main_load_check
    \/ main_call_fit
    \/ main_after_fit
    \/ main_crash
    \/ main_done
    \/ FitSteps

Spec == Init /\ [][Next]_vars


(***************************************************************************)
(* A caller with a fixed seed: it calls fit_t_shirt NumCalls times on the  *)
(* same body, garment and gender (any of them, None included), seeds       *)
(* np.random with the same seed before each call, and treats each result   *)
(* as main's loop does.                                                    *)
(***************************************************************************)
\* np.random.seed(seed); fitted_shirt, body = fit_t_shirt(body, shirt, gender)
seeded_call_fit ==
    /\ mainpc = "loop"
    /\ indx <= Len(meshes)
    /\ rng' = seed
    /\ fit' = CallFrame(meshes[indx], loaded.shirt, gender[indx])
    /\ mainpc' = "in_fit"
    /\ UNCHANGED <<heap, orig, sample_memo, icp_memo, seed, loaded, meshes, gender, indx,
                   visualized, results, sc, reg>>

InitFit ==
    /\ \E b \in Bodies, s \in Shirts :
           heap = [o \in ObjIds |->
                      CASE o = "female" -> b [] o = "shirt" -> s [] OTHER -> <<>>]
    /\ orig = heap
    /\ \E bref \in {"female", None}, sref \in {"shirt", None}, g \in Genders :
           /\ loaded = [female_mesh |-> bref, male_mesh |-> None, shirt |-> sref]
           /\ meshes = [i \in 1..NumCalls |-> bref]
           /\ gender = [i \in 1..NumCalls |-> g]
    /\ rng \in 0..MaxSeed
    /\ seed \in 0..MaxSeed
    /\ sample_memo = {}
    /\ icp_memo = {}
    /\ indx = 1
    /\ mainpc = "loop"
    /\ visualized = <<>>
    /\ results = <<>>
    /\ fit = IdleFit
    /\ sc = IdleSc
    /\ reg = IdleReg

NextFit ==
    \/ seeded_call_fit
    \/ main_after_fit
    \/ main_crash
    \/ main_done
    \/ FitSteps

SpecFit == InitFit /\ [][NextFit]_vars

(***************************************************************************)
(* A direct call scale_mesh(mesh, scale_factors) with any argument: a list,*)
(* an array or a tuple, of any length up to MaxFactorLen.                  *)
(***************************************************************************)
MaxFactorLen == 4

FactorValues == {R(-1, 1), Zero, R(3, 2)}

FactorArgs == UNION {[1..n -> FactorValues] : n \in 0..MaxFactorLen}

Kinds == {"list", "ndarray", "tuple"}

scale_call ==
    /\ sc.pc = "ready"
    /\ LET r == scale_mesh(heap, sc.mesh, sc.kind, sc.factors)
       IN  /\ heap' = r.heap
           /\ sc' = [sc EXCEPT !.pc = "done", !.ret = r.ret]
    /\ UNCHANGED <<world, callervars, fit, reg>>

InitScale ==
    /\ \E s \in Shirts : heap = [o \in ObjIds |-> IF o = "shirt" THEN s ELSE <<>>]
    /\ orig = heap
    /\ \E m \in {"shirt", None}, k \in Kinds, f \in FactorArgs :
           sc = [pc |-> "ready", mesh |-> m, kind |-> k, factors |-> f, ret |-> None]
    /\ loaded = [female_mesh |-> None, male_mesh |-> None, shirt |-> "shirt"]
    /\ rng = 0
    /\ seed = 0
    /\ sample_memo = {}
    /\ icp_memo = {}
    /\ meshes = <<>>
    /\ gender = <<>>
    /\ indx = 0
    /\ mainpc = "idle"
    /\ visualized = <<>>
    /\ results = <<>>
    /\ fit = IdleFit
    /\ reg = IdleReg

NextScale == scale_call

SpecScale == InitScale /\ [][NextScale]_vars

(***************************************************************************)
(* The registration loop behind trimesh.registration.icp, which is no code *)
(* of this repository: the state machine of the specification (Init,       *)
(* Iterate, Converged, Terminal), run with the arguments align_meshes_icp  *)
(* passes.  The residual of an iteration improves on the one before by any *)
(* of ImprovementValues.                                                   *)
(***************************************************************************)
\* def align_meshes_icp(..., max_iterations=100, threshold=0.01)
max_iterations == 100

threshold == R(1, 100)

\* (a mutant of icp_max_iterations: one iteration too many is allowed)
icp_max_iterations_plus == max_iterations + 1

\* the arguments of the call: max_iterations=max_iterations, threshold=threshold
icp_max_iterations == max_iterations

icp_threshold == threshold

\* the improvement of the mean residual from one iteration to the next is a
\* multiple of 0.005, from -0.005 (the residual grew) to MaxImprovement * 0.005
MaxImprovement == 3

ImprovementValues == {R(k, 200) : k \in -1..MaxImprovement}

\* the improvement of the residual is below the threshold
Converged(improvement) == RLt(improvement, icp_threshold)

\* Init: current transform = identity, iteration = 0 (no residual yet: the
\* first improvement is infinite)
reg_start ==
    /\ reg.pc = "idle"
    /\ reg' = [pc |-> IF icp_max_iterations = 0 THEN "terminal" ELSE "iterate",
               n |-> 0, improvement |-> <<1, 0>>, turns |-> 0]
    /\ UNCHANGED <<heap, world, callervars, fit, sc>>

\* Iterate (the rigid fit of this iteration turns by t * 90 degrees), then
\* Converged or the next iteration
reg_iterate ==
    /\ reg.pc = "iterate"
    /\ reg.n < icp_max_iterations
    /\ \E d \in (IF reg.n = 0 THEN {<<1, 0>>} ELSE ImprovementValues), t \in 0..1 :
           reg' = [pc |-> IF Converged(d) \/ reg.n + 1 >= icp_max_iterations
                          THEN "terminal" ELSE "iterate",
                   n |-> reg.n + 1, improvement |-> d, turns |-> (reg.turns + t) % 4]
    /\ UNCHANGED <<heap, world, callervars, fit, sc>>

InitICP ==
    /\ heap = [o \in ObjIds |-> <<>>]
    /\ orig = heap
    /\ loaded = [female_mesh |-> None, male_mesh |-> None, shirt |-> None]
    /\ rng = 0
    /\ seed = 0
    /\ sample_memo = {}
    /\ icp_memo = {}
    /\ meshes = <<>>
    /\ gender = <<>>
    /\ indx = 0
    /\ mainpc = "idle"
    /\ visualized = <<>>
    /\ results = <<>>
    /\ fit = IdleFit
    /\ sc = IdleSc
    /\ reg = IdleReg

NextICP ==
    \/ reg_start
    \/ reg_iterate

SpecICP == InitICP /\ [][NextICP]_vars /\ WF_vars(NextICP)


(***************************************************************************)
(* The claims.  The tables below are written from the claims' own numbers, *)
(* and the expected vertices are computed componentwise, not through the   *)
(* 4x4 matrices of the code.                                               *)
(***************************************************************************)
HasZero(v) == \E i \in Axes : v[i] = Zero

ScaledBy(verts, f) == [k \in DOMAIN verts |-> [i \in Axes |-> RMul(verts[k][i], f[i])]]

MovedBy(verts, t) == [k \in DOMAIN verts |-> [i \in Axes |-> RAdd(verts[k][i], t[i])]]

ClaimPreRatios(g) == IF g = "female" THEN <<71, 41, 142>> ELSE <<79, 43, 125>>

ClaimPostFactors(g) ==
    IF g = "female" THEN <<R(9, 10), R(26, 25), R(6, 5)>> ELSE <<One, R(26, 25), R(13, 10)>>

\* C1: the caller's garment mesh and both body meshes hold, in every state of
\* main's run, the vertices they were loaded with: fit_t_shirt works on copies.
C1_CallerMeshesUnchanged == \A o \in CallerObjects : heap[o] = orig[o]

\* C1 witness: main fitted the same garment to both bodies, and the working
\* copy was transformed.
C1_Witness ==
    /\ mainpc = "done"
    /\ Len(visualized) = 2
    /\ heap["work"] # heap["shirt"]
    /\ heap["source_copy"] # heap["shirt"]

\* C2 (as claimed): once registration has failed in a call, by an exception of
\* the sampling or of icp, the call is not aborted, and what it returns is the
\* positioned garment scaled by the profile's post-scale factors.  (Stated for
\* garments with non-zero extents, so that no run that refutes it rests on the
\* division by zero of C3.)
C2_IcpFailureNeverAborts ==
    (fit.icp_failed /\ ~HasZero(fit.shirt_size)) =>
        /\ fit.pc # "raised"
        /\ fit.pc = "returned" =>
              /\ fit.ret[1] # None
              /\ heap[fit.ret[1]] = ScaledBy(fit.positioned_verts, ClaimPostFactors(fit.gender))

\* C3 (as claimed): with a zero component in the garment's extents the call
\* fails with DegenerateGeometry before any scale: no step of the pipeline runs.
C3_ZeroExtentFails ==
    (/\ fit.pc \notin {"idle", "entry", "checked"}
     /\ fit.body_mesh # None
     /\ fit.shirt_mesh # None
     /\ HasZero(extents(orig[fit.shirt_mesh])))
        => /\ fit.pc = "raised"
           /\ fit.exc = "DegenerateGeometry"
           /\ fit.steps = <<>>

\* C4: a call with a None body or garment returns (None, None) with nothing
\* computed, copied or transformed, and no visualize_meshes call is ever given
\* the result of a failed fit.
C4_NullInputFailsFirst ==
    /\ (fit.pc \notin {"idle", "entry"} /\ (fit.body_mesh = None \/ fit.shirt_mesh = None))
           => /\ fit.pc = "returned"
              /\ fit.ret = <<None, None>>
              /\ fit.steps = <<>>
              /\ fit.body_size = <<>> /\ fit.shirt_size = <<>> /\ fit.scale_factors = <<>>
              /\ heap = orig
    /\ \A i \in DOMAIN visualized : visualized[i][2] # None
    /\ \A i \in DOMAIN results : results[i].fitted = <<>> => Len(visualized) < i

\* C4 witness: a call with a None argument has returned to the caller, which
\* stopped without visualizing.
C4_Witness ==
    /\ mainpc = "returned"
    /\ Len(results) = 1
    /\ results[1].fitted = <<>>
    /\ visualized = <<>>

\* C5 (as claimed): when main's loop has ended, however it ended, fit_t_shirt
\* was called for every pair.  (Stated for garments with non-zero extents, as
\* C2 is.)
C5_EveryPairFitted ==
    (/\ mainpc \in {"done", "returned", "crashed"}
     /\ meshes # <<>>
     /\ ~HasZero(extents(orig["shirt"])))
        => Len(results) + (IF mainpc = "crashed" THEN 1 ELSE 0) = Len(meshes)


\* The garment of a call after its first two steps: the caller's garment
\* scaled by the call's scale factors, then moved by centroid(body) -
\* centroid(scaled garment) with 0.1 * body extent y added to y.
ExpectedPositioned ==
    LET body   == orig[fit.body_mesh]
        scaled == ScaledBy(orig[fit.shirt_mesh], fit.scale_factors)
        cb     == centroid(body)
        cs     == centroid(scaled)
        t      == <<RSub(cb[1], cs[1]),
                    RAdd(RSub(cb[2], cs[2]), RMul(R(1, 10), extents(body)[2])),
                    RSub(cb[3], cs[3])>>
    IN  MovedBy(scaled, t)

\* The garment a successful call must return: the positioned garment,
\* registered (the rigid transform of the call, or none when registration
\* failed), then scaled by the post-scale factors of profile g.
ExpectedFit(g) ==
    LET registered == IF fit.icp_failed THEN ExpectedPositioned
                      ELSE apply_transform(ExpectedPositioned, fit.transform)
    IN  ScaledBy(registered, ClaimPostFactors(g))

\* The scale factors of profile g: on each axis body extent / garment extent *
\* ratio, as an equation between integers.
IsPreScaleOf(factors, body_size, shirt_size, g) ==
    \A i \in Axes :
        /\ IsFinite(factors[i])
        /\ factors[i][1] * body_size[i][2] * shirt_size[i][1] * 100
               = factors[i][2] * body_size[i][1] * shirt_size[i][2] * ClaimPreRatios(g)[i]

\* C6: a call that returns a garment ran pre-scale, translation, registration
\* and post-scale in this order, each once; for a garment of non-zero extents
\* the points given to registration were sampled from the body and from the
\* positioned garment, and the returned vertices are those four steps applied
\* in this order to the caller's garment, with pre-scale ratios and post-scale
\* factors of one profile.
C6_StepsInOrder ==
    (fit.pc = "returned" /\ fit.ret[1] # None) =>
        /\ fit.steps = <<"prescale", "translate", "icp", "postscale">>
        /\ ~HasZero(fit.shirt_size) =>
              /\ fit.target_points[1] = orig[fit.body_mesh]
              /\ fit.source_points[1] = ExpectedPositioned
              /\ \E g \in {"female", "male"} :
                     /\ IsPreScaleOf(fit.scale_factors, fit.body_size, fit.shirt_size, g)
                     /\ heap[fit.ret[1]] = ExpectedFit(g)

\* C6 witness: a call returned a garment that registration had rotated.
C6_Witness ==
    /\ fit.pc = "returned"
    /\ fit.ret[1] # None
    /\ ~HasZero(fit.shirt_size)
    /\ ~fit.icp_failed
    /\ fit.transform # Eye4

\* C7: for a garment of non-zero extents the pre-scale factors are, on each
\* axis, body extent / garment extent * the ratio of the profile (female, or
\* the other one for any other gender); body extents [1.8, 0.9, 0.5], garment
\* extents [1, 1, 1] and the ratios [0.79, 0.43, 1.25] give [1.422, 0.387, 0.625].
C7_PreScaleFactors ==
    (fit.scale_factors # <<>> /\ ~HasZero(extents(orig[fit.shirt_mesh]))) =>
        /\ IsPreScaleOf(fit.scale_factors, extents(orig[fit.body_mesh]),
                        extents(orig[fit.shirt_mesh]), fit.gender)
        /\ (/\ extents(orig[fit.body_mesh]) = <<R(18, 10), R(9, 10), R(5, 10)>>
            /\ extents(orig[fit.shirt_mesh]) = <<One, One, One>>
            /\ fit.gender # "female")
               => fit.scale_factors = <<R(1422, 1000), R(387, 1000), R(625, 1000)>>

\* C7 witness: the example of the claim has been computed, for a gender that
\* is neither 'female' nor 'male'.
C7_Witness ==
    /\ fit.pc = "scaled"
    /\ orig[fit.body_mesh] = BodyA
    /\ orig[fit.shirt_mesh] = ShirtUnit
    /\ fit.gender = "other"

C9_Deterministic ==
    /\ \A i, j \in DOMAIN results : results[i] = results[j]
    /\ mainpc = "crashed" => results = <<>>

\* C9 witness: two calls have returned a registered garment.
C9_Witness ==
    /\ Len(results) >= 2
    /\ results[2].fitted # <<>>
    /\ \E e \in icp_memo : e[2].ok

\* C10 (as claimed): on a mesh, scale_mesh returns None and changes nothing
\* when the factors do not have exactly 3 components, and with exactly 3
\* components it returns the mesh, every vertex multiplied componentwise.
C10_ScaleByLength ==
    (sc.pc = "done" /\ sc.mesh # None) =>
        IF Len(sc.factors) # 3
        THEN sc.ret = None /\ heap = orig
        ELSE sc.ret = sc.mesh /\ heap[sc.mesh] = ScaledBy(orig[sc.mesh], sc.factors)

\* C10 (amended): on a mesh, scale_mesh returns None and changes nothing when
\* the factors are not a list or an array or do not have exactly 3 components;
\* with a list or an array of exactly 3 components, of any sign, it returns the
\* mesh, every vertex multiplied componentwise.
C10_ScaleByLengthAndType ==
    (sc.pc = "done" /\ sc.mesh # None) =>
        IF Len(sc.factors) # 3 \/ sc.kind \notin {"list", "ndarray"}
        THEN sc.ret = None /\ heap = orig
        ELSE sc.ret = sc.mesh /\ heap[sc.mesh] = ScaledBy(orig[sc.mesh], sc.factors)

\* C10 witness: a mesh has been scaled by a list with a negative and a zero
\* factor.
C10_Witness ==
    /\ sc.pc = "done"
    /\ sc.kind = "list"
    /\ sc.factors = <<R(-1, 1), Zero, R(3, 2)>>
    /\ sc.ret = "shirt"
    /\ heap["shirt"] # orig["shirt"]

====
